---- MODULE Spec2Model ----
(***************************************************************************)
(* Model of package mph (src/mph.go): Build, the "hash, displace and       *)
(* compress" construction of a minimal perfect hash Table, and Lookup.     *)
(*                                                                         *)
(* Go slices are modelled as functions over 0..len-1, so that the indices  *)
(* stored in level1 are the indices of the source.  The bytes of a string  *)
(* or of a []byte live in `heap`; a slice element is the address of its    *)
(* bytes, so that two slices sharing a backing array share an address.     *)
(***************************************************************************)
EXTENDS Integers, Sequences, FiniteSets, TLC

\* ------------------------------------------------------------------ bounds
\* largest number of keys handed to Build
MaxKeys == 8
\* the input is keys number KeyOff .. KeyOff+n-1 of the key universe, KeyOff <= MaxOff
MaxOff == 2
\* largest value of a seed: the seed type of the source has a fixed width, and
\* seed++ on its largest value gives 0
MaxSeed == 32
\* number of writes the caller makes to its key storage after Build returned
MaxWrites == 1

\* ------------------------------------------------------------- primitives
\* x & y on non-negative integers
RECURSIVE And(_, _)
And(x, y) ==
    IF x = 0 \/ y = 0 THEN 0
    ELSE (x % 2) * (y % 2) + 2 * And(x \div 2, y \div 2)

Max(a, b) == IF a >= b THEN a ELSE b

\* make([]T, n) with every element v
Make(n, v) == [i \in 0 .. n - 1 |-> v]

\* len of a slice
LenOf(a) == Cardinality(DOMAIN a)

\* append(a, v)
AppendTo(a, v) == [i \in 0 .. LenOf(a) |-> IF i < LenOf(a) THEN a[i] ELSE v]

\* the rounds of nextPow2's loop from i on
RECURSIVE nextPow2From(_, _)
nextPow2From(i, n) == IF i >= n THEN i ELSE nextPow2From(i * 2, n)

\* a variant that stops one doubling early: the largest power of two <= n
RECURSIVE nextPow2Short(_, _)
nextPow2Short(i, n) == IF i * 2 > n THEN i ELSE nextPow2Short(i * 2, n)

nextPow2Floor(n) == nextPow2Short(1, n)

nextPow2(n) == nextPow2From(1, n)

\* The seeded hash.  Its source is not among the files of src/; it is a pure
\* function of the seed and the bytes with an unsigned 32-bit result.  Here it
\* is a multiplicative mix modulo a prime: one round for the length and one per
\* byte, started from the seed, and a final squaring.
hashPrime == 32749

hashRound(h, b) == ((h + b + 1) * 20307 + 8729) % hashPrime

RECURSIVE hashBytes(_, _, _)
hashBytes(h, s, k) ==
    IF k > Len(s) THEN h ELSE hashBytes(hashRound(h, s[k]), s, k + 1)

murmurHash(seed, s) ==
    LET h == hashBytes(hashRound((seed * 8107 + 847) % hashPrime, Len(s)), s, 1)
    IN  (h * h + h \div 256) % hashPrime

\* ------------------------------------------------------------------ keys
\* the byte values keys are made of
Bytes == {97, 98}

\* key number id of the universe: "", "a", "b", "aa", "ab", "ba", "bb", "aaa", ...
RECURSIVE KeyOf(_)
KeyOf(id) ==
    IF id = 0 THEN << >>
    ELSE Append(KeyOf((id - 1) \div 2), 97 + ((id - 1) % 2))

\* the keys a caller may ask Lookup for: every input key and keys outside the input
KeyIds == 0 .. MaxOff + MaxKeys

\* the two instantiations of the type parameter T of Build and Lookup
KeyTypes == {"string", "bytes"}

\* the callers that run Lookup concurrently on one Table
Callers == {"A", "B"}

\* ----------------------------------------------------------------- state
VARIABLES
    keyType,     \* T: "string" or "bytes"
    heap,        \* address -> the bytes stored there (string data, backing arrays)
    keys,        \* the caller's slice: index -> address of the element's bytes
    pc,          \* Build's position: "start", "loop", "try", "done"
    level0,      \* Build's level0
    level0Mask,
    level1,      \* Build's level1
    level1Mask,
    pool,        \* Build's pool: index -> address of the key's bytes
    buckets,     \* Build's buckets after sort.Sort: index -> [n, vals]
    occ,         \* Build's occ
    tmpOcc,      \* Build's tmpOcc
    bi,          \* index of the range loop over buckets
    seed,        \* the seed being tried for buckets[bi]
    vi,          \* index of the range loop over bucket.vals
    t,           \* the Table Build returned
    last,        \* the latest Lookup call and what it returned
    writes,      \* number of writes of the caller to its key storage since Build returned
    call         \* per concurrent caller: position and locals of its Lookup call

vars == << keyType, heap, keys, pc, level0, level0Mask, level1, level1Mask, pool,
           buckets, occ, tmpOcc, bi, seed, vi, t, last, writes, call >>

buildVars == << level0, level0Mask, level1, level1Mask, pool, buckets, occ, tmpOcc,
                bi, seed, vi >>

\* a Table value before Build has returned one
NoTable ==
    [keys |-> Make(0, 0), level0 |-> Make(0, 0), level0Mask |-> 0,
     level1 |-> Make(0, 0), level1Mask |-> 0]

NoLookup == [called |-> FALSE]

Idle == [pc |-> "idle"]

\* the input: keys number off .. off+n-1 of the universe in this order, but the
\* last position holding key number off+rep; with rep < n - 1 that key is in the
\* input twice
InputKey(off, n, rep, i) == IF i = n - 1 THEN KeyOf(off + rep) ELSE KeyOf(off + i)

WindowInput(off, n, rep) == [a \in 1 .. n |-> InputKey(off, n, rep, a - 1)]

\* eight keys of the universe that fall into the same first-level bucket of a
\* Table of two, so that the other bucket stays empty
SkewedIds == << 0, 3, 5, 7, 17, 19, 24, 26 >>

SkewedInput == [a \in 1 .. Len(SkewedIds) |-> KeyOf(SkewedIds[a])]

Inputs ==
    UNION { { WindowInput(off, n, rep) : rep \in 0 .. Max(n - 1, 0) } :
              off \in 0 .. MaxOff, n \in 0 .. MaxKeys }
    \cup { SkewedInput }

Init ==
    \E kt \in KeyTypes, input \in Inputs :
        /\ heap = input
        /\ keyType = kt
        /\ keys = [i \in 0 .. Len(input) - 1 |-> i + 1]
        /\ pc = "start"
        /\ level0 = Make(0, 0)
        /\ level0Mask = 0
        /\ level1 = Make(0, 0)
        /\ level1Mask = 0
        /\ pool = Make(0, 0)
        /\ buckets = Make(0, 0)
        /\ occ = Make(0, FALSE)
        /\ tmpOcc = << >>
        /\ bi = 0
        /\ seed = 0
        /\ vi = 0
        /\ t = NoTable
        /\ last = NoLookup
        /\ writes = 0
        /\ call = [c \in Callers |-> Idle]

\* ----------------------------------------------------------------- Build
\* int(murmurHash(seed, s)) & mask
Slot(sd, s, mask) == And(murmurHash(sd, s), mask)

\* []byte(s) for s of type T at address a: a string is copied into a new array,
\* a []byte converts to itself and keeps its backing array
ToBytesCopy(kt, hp, a) == [heap |-> Append(hp, hp[a]), addr |-> Len(hp) + 1]

ToBytes(kt, hp, a) ==
    IF kt = "string" THEN ToBytesCopy(kt, hp, a) ELSE [heap |-> hp, addr |-> a]

\* the loop over keys: pool after appending []byte(s) for the keys from i on
RECURSIVE PoolFrom(_, _, _, _, _)
PoolFrom(kt, hp, ks, pl, i) ==
    IF i >= LenOf(ks) THEN [heap |-> hp, pool |-> pl]
    ELSE LET b == ToBytes(kt, hp, ks[i])
         IN  PoolFrom(kt, b.heap, ks, AppendTo(pl, b.addr), i + 1)

\* the loop over keys: sparseBuckets[n] = append(sparseBuckets[n], i)
sparseBucketsOf(hp, ks, nb, mask) ==
    [b \in 0 .. nb - 1 |->
        LET members == { i \in DOMAIN ks : Slot(0, hp[ks[i]], mask) = b }
            RECURSIVE Asc(_, _)
            Asc(i, acc) ==
                IF i >= LenOf(ks) THEN acc
                ELSE Asc(i + 1, IF i \in members THEN AppendTo(acc, i) ELSE acc)
        IN  Asc(0, Make(0, 0))]

\* the loop over sparseBuckets: the non-empty buckets, by ascending n
RECURSIVE collectFrom(_, _, _)
collectFrom(sb, n, acc) ==
    IF n >= LenOf(sb) THEN acc
    ELSE collectFrom(sb, n + 1,
            IF LenOf(sb[n]) > 0 THEN AppendTo(acc, [n |-> n, vals |-> sb[n]]) ELSE acc)

\* bySize.Less on two buckets
bySizeLessAscending(a, b) == LenOf(a.vals) < LenOf(b.vals)

bySizeLess(a, b) == LenOf(a.vals) > LenOf(b.vals)

\* sort.Sort(bySize(buckets)): the buckets in an order in which no bucket precedes
\* one that is Less than it.  sort.Sort is not stable, so the order among buckets
\* of equal size is whatever the library's algorithm makes of the input.
bySizeSorted(bs) ==
    LET m == LenOf(bs)
        perms == { p \in [0 .. m - 1 -> 0 .. m - 1] :
                     \A i, j \in 0 .. m - 1 : i # j => p[i] # p[j] }
    IN  { [i \in 0 .. m - 1 |-> bs[p[i]]] : p \in
            { q \in perms : \A i, j \in 0 .. m - 1 :
                               i < j => ~ bySizeLess(bs[q[j]], bs[q[i]]) } }

\* lines 21-44: allocation, partition by hash with seed 0, pool, bucket collection,
\* sort, and the occupancy array
BuildStart ==
    /\ pc = "start"
    /\ LET n   == LenOf(keys)
           l0  == Make(nextPow2(n \div 4), 0)
           l1  == Make(nextPow2(n), 0)
           pl  == PoolFrom(keyType, heap, keys, Make(0, 0), 0)
           sb  == sparseBucketsOf(heap, keys, LenOf(l0), LenOf(l0) - 1)
       IN  /\ level0' = l0
           /\ level0Mask' = LenOf(l0) - 1
           /\ level1' = l1
           /\ level1Mask' = LenOf(l1) - 1
           /\ heap' = pl.heap
           /\ pool' = pl.pool
           /\ \E sorted \in bySizeSorted(collectFrom(sb, 0, Make(0, 0))) :
                 buckets' = sorted
           /\ occ' = Make(LenOf(l1), FALSE)
    /\ tmpOcc' = << >>
    /\ bi' = 0
    /\ pc' = "loop"
    /\ UNCHANGED << keyType, keys, seed, vi, t, last, writes, call >>

\* lines 45-48: the next bucket, with a zero seed and an emptied tmpOcc
NextBucket ==
    /\ pc = "loop"
    /\ bi < LenOf(buckets)
    /\ seed' = 0
    /\ tmpOcc' = << >>
    /\ vi' = 0
    /\ pc' = "try"
    /\ UNCHANGED << keyType, heap, keys, level0, level0Mask, level1, level1Mask, pool,
                    buckets, occ, bi, t, last, writes, call >>

\* line 51: is slot n taken
TakenNever(o, n) == FALSE

Taken(o, n) == o[n]

\* lines 52-54: occ with the marks of this trial cleared
ClearKeepsMarks(o, tmp) == o

ClearMarksAll(o, tmp) == [n \in DOMAIN o |-> FALSE]

ClearMarks(o, tmp) ==
    [n \in DOMAIN o |-> IF \E k \in 1 .. Len(tmp) : tmp[k] = n THEN FALSE ELSE o[n]]

\* lines 49-51, 58-60 with the slot number stored in place of the key index
PlaceWritesSlot ==
    /\ pc = "try"
    /\ vi < LenOf(buckets[bi].vals)
    /\ LET i == buckets[bi].vals[vi]
           n == Slot(seed, heap[keys[i]], level1Mask)
       IN  /\ ~ Taken(occ, n)
           /\ occ' = [occ EXCEPT ![n] = TRUE]
           /\ tmpOcc' = Append(tmpOcc, n)
           /\ level1' = [level1 EXCEPT ![n] = n]
    /\ vi' = vi + 1
    /\ UNCHANGED << keyType, heap, keys, pc, level0, level0Mask, level1Mask, pool,
                    buckets, bi, seed, t, last, writes, call >>

\* lines 49-51, 58-60: the slot of the next key of the bucket is free; mark it
Place ==
    /\ pc = "try"
    /\ vi < LenOf(buckets[bi].vals)
    /\ LET i == buckets[bi].vals[vi]
           n == Slot(seed, heap[keys[i]], level1Mask)
       IN  /\ ~ Taken(occ, n)
           /\ occ' = [occ EXCEPT ![n] = TRUE]
           /\ tmpOcc' = Append(tmpOcc, n)
           /\ level1' = [level1 EXCEPT ![n] = i]
    /\ vi' = vi + 1
    /\ UNCHANGED << keyType, heap, keys, pc, level0, level0Mask, level1Mask, pool,
                    buckets, bi, seed, t, last, writes, call >>

\* line 55: seed++
nextSeedSkips(sd) == (sd + 2) % (MaxSeed + 1)

nextSeed(sd) == (sd + 1) % (MaxSeed + 1)

\* lines 49-57 with a search that gives the bucket up after the last seed
AbortCapped ==
    /\ pc = "try"
    /\ vi < LenOf(buckets[bi].vals)
    /\ LET i == buckets[bi].vals[vi]
           n == Slot(seed, heap[keys[i]], level1Mask)
       IN  /\ Taken(occ, n)
           /\ occ' = ClearMarks(occ, tmpOcc)
    /\ IF seed = MaxSeed
       THEN pc' = "loop" /\ bi' = bi + 1 /\ seed' = seed
       ELSE pc' = pc /\ bi' = bi /\ seed' = nextSeed(seed)
    /\ tmpOcc' = << >>
    /\ vi' = 0
    /\ UNCHANGED << keyType, heap, keys, level0, level0Mask, level1, level1Mask,
                    pool, buckets, t, last, writes, call >>

\* lines 49-57 with the level1 writes of the trial undone as well
AbortRollsBack ==
    /\ pc = "try"
    /\ vi < LenOf(buckets[bi].vals)
    /\ LET i == buckets[bi].vals[vi]
           n == Slot(seed, heap[keys[i]], level1Mask)
       IN  /\ Taken(occ, n)
           /\ occ' = ClearMarks(occ, tmpOcc)
    /\ level1' = [n \in DOMAIN level1 |->
                    IF \E k \in 1 .. Len(tmpOcc) : tmpOcc[k] = n THEN 0 ELSE level1[n]]
    /\ seed' = nextSeed(seed)
    /\ tmpOcc' = << >>
    /\ vi' = 0
    /\ UNCHANGED << keyType, heap, keys, pc, level0, level0Mask, level1Mask,
                    pool, buckets, bi, t, last, writes, call >>

\* lines 49-57, 48: the slot of the next key is taken; drop the marks of this
\* trial and start over with the next seed
Abort ==
    /\ pc = "try"
    /\ vi < LenOf(buckets[bi].vals)
    /\ LET i == buckets[bi].vals[vi]
           n == Slot(seed, heap[keys[i]], level1Mask)
       IN  /\ Taken(occ, n)
           /\ occ' = ClearMarks(occ, tmpOcc)
    /\ seed' = nextSeed(seed)
    /\ tmpOcc' = << >>
    /\ vi' = 0
    /\ UNCHANGED << keyType, heap, keys, pc, level0, level0Mask, level1, level1Mask,
                    pool, buckets, bi, t, last, writes, call >>

\* line 62 with the seed recorded at every index of level0
CommitWritesAll ==
    /\ pc = "try"
    /\ vi = LenOf(buckets[bi].vals)
    /\ level0' = [b \in DOMAIN level0 |-> seed]
    /\ bi' = bi + 1
    /\ pc' = "loop"
    /\ UNCHANGED << keyType, heap, keys, level0Mask, level1, level1Mask, pool, buckets,
                    occ, tmpOcc, seed, vi, t, last, writes, call >>

\* line 62: every key of the bucket is placed; record the seed
Commit ==
    /\ pc = "try"
    /\ vi = LenOf(buckets[bi].vals)
    /\ level0' = [level0 EXCEPT ![buckets[bi].n] = seed]
    /\ bi' = bi + 1
    /\ pc' = "loop"
    /\ UNCHANGED << keyType, heap, keys, level0Mask, level1, level1Mask, pool, buckets,
                    occ, tmpOcc, seed, vi, t, last, writes, call >>

\* lines 65-71: the Table of the arrays built
Return ==
    /\ pc = "loop"
    /\ bi = LenOf(buckets)
    /\ t' = [keys |-> pool, level0 |-> level0, level0Mask |-> level0Mask,
             level1 |-> level1, level1Mask |-> level1Mask]
    /\ pc' = "done"
    /\ UNCHANGED << keyType, heap, keys, buildVars, last, writes, call >>

Build == BuildStart \/ NextBucket \/ Place \/ Abort \/ Commit \/ Return

\* ---------------------------------------------------------------- Lookup
\* line 84-85: the seed of s's first-level bucket
seedOf(tb, s) == tb.level0[Slot(0, s, tb.level0Mask)]

\* line 86-87: the index in s's second-level slot under seed sd
indexOfZeroSeed(tb, sd, s) == tb.level1[Slot(0, s, tb.level1Mask)]

indexOf(tb, sd, s) == tb.level1[Slot(sd, s, tb.level1Mask)]

\* line 88: t.keys[int(n)] is read; an index outside the slice panics
inRange(tb, n) == n \in DOMAIN tb.keys

\* line 88: string(s) == string(t.keys[int(n)])
sameBytes(tb, hp, n, s) == s = hp[tb.keys[n]]

\* Lookup(t, s) as one call: the values returned, or the panic that ends it
LookupOf(tb, hp, s) ==
    LET n == indexOf(tb, seedOf(tb, s), s)
    IN  IF inRange(tb, n)
        THEN [n |-> n, ok |-> sameBytes(tb, hp, n, s), panic |-> FALSE]
        ELSE [n |-> n, ok |-> FALSE, panic |-> TRUE]

\* a call of Lookup on the Table Build returned
Lookup ==
    /\ pc = "done"
    /\ \E q \in KeyIds :
         last' = [called |-> TRUE, s |-> KeyOf(q), res |-> LookupOf(t, heap, KeyOf(q))]
    /\ UNCHANGED << keyType, heap, keys, pc, buildVars, t, writes, call >>

\* ------------------------------------------------- the caller's key storage
\* keys[i] = v: the caller stores another key, here the empty one, in element i
\* of its slice
CallerAssign ==
    /\ pc = "done"
    /\ writes < MaxWrites
    /\ \E i \in DOMAIN keys :
         /\ heap[keys[i]] # << >>
         /\ heap' = Append(heap, << >>)
         /\ keys' = [keys EXCEPT ![i] = Len(heap) + 1]
    /\ writes' = writes + 1
    /\ UNCHANGED << keyType, pc, buildVars, t, last, call >>

\* keys[i][k] = b: the caller overwrites one byte of element i; a string has no
\* such assignment
CallerWriteByte ==
    /\ pc = "done"
    /\ writes < MaxWrites
    /\ keyType = "bytes"
    /\ \E i \in DOMAIN keys :
         \E k \in 1 .. Len(heap[keys[i]]), b \in Bytes :
           /\ heap[keys[i]][k] # b
           /\ heap' = [heap EXCEPT ![keys[i]][k] = b]
    /\ writes' = writes + 1
    /\ UNCHANGED << keyType, keys, pc, buildVars, t, last, call >>

\* ------------------------------------------------------ concurrent Lookup
\* a caller enters Lookup(t, s); lines 84-85
LookupLevel0(c) ==
    /\ pc = "done"
    /\ call[c].pc = "idle"
    /\ \E q \in KeyIds :
         call' = [call EXCEPT ![c] =
                    [pc |-> "level1", s |-> KeyOf(q), seed |-> seedOf(t, KeyOf(q))]]
    /\ UNCHANGED << keyType, heap, keys, pc, buildVars, t, last, writes >>

\* lines 86-87, keeping the seed read in the Table for the next call
LookupLevel1Caching(c) ==
    /\ call[c].pc = "level1"
    /\ call' = [call EXCEPT ![c] =
                  [pc |-> "compare", s |-> call[c].s,
                   n |-> indexOf(t, call[c].seed, call[c].s)]]
    /\ t' = [t EXCEPT !.level0[0] = call[c].seed]
    /\ UNCHANGED << keyType, heap, keys, pc, buildVars, last, writes >>

\* lines 86-87
LookupLevel1(c) ==
    /\ call[c].pc = "level1"
    /\ call' = [call EXCEPT ![c] =
                  [pc |-> "compare", s |-> call[c].s,
                   n |-> indexOf(t, call[c].seed, call[c].s)]]
    /\ UNCHANGED << keyType, heap, keys, pc, buildVars, t, last, writes >>

\* line 88
LookupCompare(c) ==
    /\ call[c].pc = "compare"
    /\ call' = [call EXCEPT ![c] =
                  [pc |-> "returned", s |-> call[c].s,
                   res |-> IF inRange(t, call[c].n)
                           THEN [n |-> call[c].n,
                                 ok |-> sameBytes(t, heap, call[c].n, call[c].s),
                                 panic |-> FALSE]
                           ELSE [n |-> call[c].n, ok |-> FALSE, panic |-> TRUE]]]
    /\ UNCHANGED << keyType, heap, keys, pc, buildVars, t, last, writes >>

LookupStep(c) == LookupLevel0(c) \/ LookupLevel1(c) \/ LookupCompare(c)

\* ---------------------------------------------------------- specifications
\* Build, then Lookup calls and writes of the caller to its keys, one at a time
Next == Build \/ Lookup \/ CallerAssign \/ CallerWriteByte

Spec == Init /\ [][Next]_vars

\* Build, then Lookup calls of several callers, interleaved step by step
ConcNext == Build \/ \E c \in Callers : LookupStep(c)

ConcSpec == Init /\ [][ConcNext]_vars

\* ------------------------------------------------------------ vocabulary
\* the bytes of the caller's key i
KeyBytes(i) == heap[keys[i]]

\* the bytes of the Table's key i
TableKey(tb, hp, i) == hp[tb.keys[i]]

InputDistinct == \A i, j \in DOMAIN keys : i # j => KeyBytes(i) # KeyBytes(j)

InInput(s) == \E i \in DOMAIN keys : KeyBytes(i) = s

\* Build has returned and the caller has not written to its keys since
Built == pc = "done" /\ writes = 0

IsPow2(x) == \E k \in 0 .. x : 2 ^ k = x

CeilDiv(a, b) == (a + b - 1) \div b

\* ----------------------------------------------------------------- C1
\* C1: for pairwise distinct input keys on which Build has returned, Lookup of
\* the key at input position i returns (i, true), and the indices returned for
\* the input keys are exactly 0..n-1.
C1_LookupReturnsPosition ==
    (Built /\ InputDistinct) =>
        /\ last.called =>
             \A i \in DOMAIN keys :
                last.s = KeyBytes(i) => last.res = [n |-> i, ok |-> TRUE, panic |-> FALSE]
        /\ \A i \in DOMAIN keys :
                LookupOf(t, heap, KeyBytes(i)) = [n |-> i, ok |-> TRUE, panic |-> FALSE]
        /\ { LookupOf(t, heap, KeyBytes(i)).n : i \in DOMAIN keys } = DOMAIN keys

\* a Lookup of the last of eight keys, spread over two buckets, one of which
\* needed a seed other than 0, has returned its position
C1_Witness ==
    /\ Built
    /\ LenOf(keys) = 8
    /\ LenOf(buckets) = 2
    /\ \E b \in DOMAIN level0 : level0[b] > 0
    /\ last.called
    /\ last.s = KeyBytes(7)
    /\ last.res = [n |-> 7, ok |-> TRUE, panic |-> FALSE]

\* ----------------------------------------------------------------- C2
\* C2: Lookup of a key that is not among the keys the Table was built from
\* returns found = false.
C2_AbsentKeyNotFound ==
    (Built /\ last.called /\ ~ InInput(last.s)) =>
        (~ last.res.panic /\ ~ last.res.ok)

\* ----------------------------------------------------------------- C3
\* C3: Build of no keys returns a Table, and every Lookup on it completes and
\* returns found = false.
C3_EmptyTableLookupNotFound ==
    (pc = "done" /\ LenOf(keys) = 0) =>
        \A q \in KeyIds :
            LET r == LookupOf(t, heap, KeyOf(q)) IN ~ r.panic /\ ~ r.ok

\* ----------------------------------------------------------------- C4
\* the arrays Build has allocated, which are those of the Table it returns
SizesOf(l0, m0, l1, m1, ceil) ==
    /\ IsPow2(LenOf(l0))
    /\ LenOf(l0) >= Max(1, IF ceil THEN CeilDiv(LenOf(keys), 4) ELSE LenOf(keys) \div 4)
    /\ IsPow2(LenOf(l1))
    /\ LenOf(l1) >= Max(1, LenOf(keys))
    /\ m0 = LenOf(l0) - 1
    /\ m1 = LenOf(l1) - 1

\* C4 as stated: level0's length is a power of two >= max(1, ceil(n/4)), level1's
\* a power of two >= max(1, n), and each mask is its length less one.
C4_SizesCeil ==
    /\ pc # "start" => SizesOf(level0, level0Mask, level1, level1Mask, TRUE)
    /\ pc = "done" => SizesOf(t.level0, t.level0Mask, t.level1, t.level1Mask, TRUE)

\* C4 amended: level0's length is a power of two >= max(1, floor(n/4)); the rest
\* as stated.
C4_SizesFloor ==
    /\ pc # "start" => SizesOf(level0, level0Mask, level1, level1Mask, FALSE)
    /\ pc = "done" => SizesOf(t.level0, t.level0Mask, t.level1, t.level1Mask, FALSE)

\* a Table of seven keys, where floor(n/4) = 1 and ceil(n/4) = 2: level0 has one
\* element and level1 eight
C4_Witness ==
    /\ pc = "done"
    /\ LenOf(t.keys) = 7
    /\ LenOf(t.level0) = 1
    /\ LenOf(t.level1) = 8

\* ----------------------------------------------------------------- C5
\* C5 as stated: with the same key at two positions of the input, Build still
\* returns.  The seed search is a function of the seed alone, so a Build that
\* returns has no bucket whose search rejects every seed and starts over from 0:
\* from there on it would repeat itself for ever.
C5_DuplicatesStillReturn ==
    [][(~ InputDistinct /\ pc = "try" /\ pc' = "try") => seed' >= seed]_vars

\* C5 amended: with the same key at two positions of the input, Build never
\* returns: the two occurrences share a bucket and a slot under every seed, so
\* no trial of that bucket reaches its end, and nothing reports the duplicate.
C5_DuplicatesNeverReturn ==
    (~ InputDistinct /\ writes = 0) =>
        /\ pc # "done"
        /\ pc # "start" =>
             \E p \in DOMAIN buckets :
                /\ bi <= p
                /\ \E v, w \in DOMAIN buckets[p].vals :
                      /\ v # w
                      /\ KeyBytes(buckets[p].vals[v]) = KeyBytes(buckets[p].vals[w])

\* of eight keys in two buckets, the bucket without the duplicate is committed
\* and the seed search of the other has rejected every seed but the last
C5_Witness ==
    /\ ~ InputDistinct
    /\ LenOf(keys) = 8
    /\ pc = "try"
    /\ bi = 1
    /\ seed = MaxSeed
    /\ vi > 0

\* ----------------------------------------------------------------- C6
\* C6: a write of the caller to its key storage after Build has returned changes
\* neither the Table's keys nor what any Lookup returns.
C6_CallerWritesLeaveTable ==
    [][(pc = "done" /\ writes' > writes) =>
          /\ \A i \in DOMAIN t.keys : TableKey(t, heap', i) = TableKey(t, heap, i)
          /\ \A q \in KeyIds :
                LookupOf(t, heap', KeyOf(q)) = LookupOf(t, heap, KeyOf(q))]_vars

\* ----------------------------------------------------------------- C8
\* C8: no step of a Lookup call changes the Table or the bytes of its keys, and
\* with any number of calls interleaved each call returns what the call run
\* alone on the Table returns.
C8_LookupReadOnly ==
    /\ [][(\E c \in Callers : call'[c] # call[c]) => (t' = t /\ heap' = heap)]_vars
    /\ [](\A c \in Callers :
             call[c].pc = "returned" => call[c].res = LookupOf(t, heap, call[c].s))

\* one caller has found the last of eight keys while the other, asking for the
\* first, has read its seed and its index and not yet compared
C8_Witness ==
    /\ LenOf(keys) = 8
    /\ call["A"].pc = "returned"
    /\ call["A"].s = KeyBytes(7)
    /\ call["A"].res.ok
    /\ call["B"].pc = "compare"
    /\ call["B"].s = KeyBytes(0)

\* ----------------------------------------------------------------- C9
\* the level1 slots of the buckets before position p of the processing order,
\* under the seeds recorded for them
EarlierSlots(p) ==
    UNION { { Slot(level0[buckets[q].n], KeyBytes(buckets[q].vals[v]), level1Mask) :
                v \in DOMAIN buckets[q].vals } : q \in 0 .. p - 1 }

\* the level1 slot under seed s of the v-th key of the bucket at position p
SlotUnder(s, p, v) == Slot(s, KeyBytes(buckets[p].vals[v]), level1Mask)

\* under seed s the keys of the bucket at position p have pairwise distinct
\* slots, none of them a slot of an earlier bucket
Fits(s, p) ==
    /\ \A v, w \in DOMAIN buckets[p].vals : v # w => SlotUnder(s, p, v) # SlotUnder(s, p, w)
    /\ \A v \in DOMAIN buckets[p].vals : SlotUnder(s, p, v) \notin EarlierSlots(p)

\* C9: the seed recorded in level0 for a bucket is the smallest seed under
\* which its keys have pairwise distinct slots free of the earlier buckets, and
\* while the search of a bucket runs every seed below the current one fails that.
\* level0, buckets and the seed change only between trials and not after Return,
\* so the starts of the trials and the states up to the first Lookup decide it.
C9_SmallestSeed ==
    (writes = 0 /\ ~ last.called /\ (pc = "try" => vi = 0)) =>
        \A p \in DOMAIN buckets :
            /\ p < bi =>
                 /\ Fits(level0[buckets[p].n], p)
                 /\ \A s \in 0 .. level0[buckets[p].n] - 1 : ~ Fits(s, p)
            /\ (p = bi /\ pc = "try") => \A s \in 0 .. seed - 1 : ~ Fits(s, p)

\* Build has returned with two buckets; the second has a seed above 0, and some
\* smaller seed gave its keys distinct slots but one taken by the first bucket
C9_Witness ==
    /\ Built
    /\ ~ last.called
    /\ LenOf(buckets) = 2
    /\ level0[buckets[1].n] > 0
    /\ \E s \in 0 .. level0[buckets[1].n] - 1 :
          /\ \A v, w \in DOMAIN buckets[1].vals :
                v # w => SlotUnder(s, 1, v) # SlotUnder(s, 1, w)
          /\ \E v \in DOMAIN buckets[1].vals : SlotUnder(s, 1, v) \in EarlierSlots(1)

\* ---------------------------------------------------------------- C10
\* occ with exactly the slots of the buckets before position p marked
CommittedOcc(p) == [n \in DOMAIN occ |-> n \in EarlierSlots(p)]

\* C10: at the start of every trial occ holds the marks of the committed
\* buckets and no other, and the step that aborts a trial unmarks every slot
\* the trial had marked and leaves occ as it was when the trial started.
C10_AbortDiscardsMarks ==
    /\ []((pc = "try" /\ vi = 0) => (tmpOcc = << >> /\ occ = CommittedOcc(bi)))
    /\ [][(pc = "try" /\ pc' = "try" /\ seed' # seed) =>
             /\ vi' = 0
             /\ occ' = CommittedOcc(bi)
             /\ \A k \in 1 .. Len(tmpOcc) : occ[tmpOcc[k]] /\ ~ occ'[tmpOcc[k]]
             /\ \A n \in EarlierSlots(bi) : occ'[n]]_vars

\* a trial of the second bucket has been aborted after marking a slot: the
\* slot still holds the index the trial wrote and is unmarked, while the slots
\* of the first bucket are marked
C10_Witness ==
    /\ pc = "try"
    /\ vi = 0
    /\ bi = 1
    /\ seed >= 1
    /\ \E n \in DOMAIN occ :
          /\ ~ occ[n]
          /\ level1[n] # 0
          /\ \E v \in DOMAIN buckets[bi].vals : buckets[bi].vals[v] = level1[n]
    /\ \E n \in DOMAIN occ : occ[n]

\* ---------------------------------------------------------------- C11
\* the level1 slots of the keys of all buckets under the seeds recorded: the
\* final slots of the keys once Build has returned
FinalSlots == EarlierSlots(LenOf(buckets))

\* some trial of seed below the one recorded for its bucket wrote key index i
\* to slot n
WrittenByAbortedTrial(n, i) ==
    \E p \in DOMAIN buckets : \E v \in DOMAIN buckets[p].vals :
        /\ buckets[p].vals[v] = i
        /\ \E s \in 0 .. level0[buckets[p].n] - 1 : SlotUnder(s, p, v) = n

\* C11 as stated: in the Table returned every level1 slot that is not the final
\* slot of a key holds 0.
C11_UnassignedSlotsZero ==
    (Built /\ ~ last.called) =>
        \A n \in DOMAIN t.level1 : n \notin FinalSlots => t.level1[n] = 0

\* C11 amended: level1 is written as each key of a trial is placed and the step
\* that aborts a trial leaves level1 as it is; in the Table returned a slot that
\* is not the final slot of a key holds 0 or a key index that an aborted trial
\* wrote there.  The Table does not change after Return, so the states up to the
\* first Lookup decide the second part.
C11_StaleWritesRemain ==
    /\ [][(pc = "try" /\ pc' = "try" /\ seed' # seed) => level1' = level1]_vars
    /\ []((Built /\ ~ last.called) =>
            \A n \in DOMAIN t.level1 :
               n \notin FinalSlots =>
                  (t.level1[n] = 0 \/ WrittenByAbortedTrial(n, t.level1[n])))

\* Build has returned a Table in which a slot that is no key's final slot holds
\* a key index other than 0
C11_Witness ==
    /\ Built
    /\ ~ last.called
    /\ \E n \in DOMAIN t.level1 :
          /\ n \notin FinalSlots
          /\ t.level1[n] # 0
          /\ WrittenByAbortedTrial(n, t.level1[n])

\* ---------------------------------------------------------------- C12
\* the number of keys of the bucket at position p of the processing order
SizeAt(p) == LenOf(buckets[p].vals)

CommittedSlot(q, v) == SlotUnder(level0[buckets[q].n], q, v)

\* C13: between two bucket iterations the slots marked in occ are exactly the
\* slots of the keys of the buckets committed so far, these slots are pairwise
\* distinct and each holds the index of its key; and no step of a later
\* iteration changes the level1 value or the mark of a committed slot.
C13_CommittedSlots ==
    /\ [](pc = "loop" =>
            /\ occ = CommittedOcc(bi)
            /\ \A q, r \in 0 .. bi - 1 :
                  \A v \in DOMAIN buckets[q].vals, w \in DOMAIN buckets[r].vals :
                     (q # r \/ v # w) => CommittedSlot(q, v) # CommittedSlot(r, w)
            /\ \A q \in 0 .. bi - 1 : \A v \in DOMAIN buckets[q].vals :
                  level1[CommittedSlot(q, v)] = buckets[q].vals[v])
    /\ [][(pc = "loop" \/ pc = "try") =>
             \A n \in EarlierSlots(bi) :
                 occ[n] /\ occ'[n] /\ level1'[n] = level1[n]]_vars

\* both buckets of eight keys are committed, the second after trials that were
\* aborted, and every slot is marked
C13_Witness ==
    /\ pc = "loop"
    /\ bi = 2
    /\ LenOf(buckets) = 2
    /\ LenOf(keys) = 8
    /\ level0[buckets[1].n] > 0
    /\ \A n \in DOMAIN occ : occ[n]

\* ---------------------------------------------------------------- C14
\* some seed gives the keys of the bucket at position p pairwise distinct slots
\* free of the buckets committed before it
HasFit(p) == \E s \in 0 .. MaxSeed : Fits(s, p)

\* a bound on the steps of one bucket iteration: every seed once, with every
\* key of the input placed
IterationSteps == (MaxSeed + 1) * (LenOf(keys) + 1) + 1

\* a measure of what Build has left to do, as long as the seed does not start
\* over: the buckets left, then the seeds left, then the keys left of the trial
Remaining ==
    CASE pc = "start" -> (LenOf(keys) + 2) * IterationSteps
      [] pc = "loop"  -> (LenOf(buckets) - bi) * IterationSteps + IterationSteps - 1
      [] pc = "try"   -> (LenOf(buckets) - bi) * IterationSteps
                            + (MaxSeed - seed) * (SizeAt(bi) + 1) + (SizeAt(bi) - vi)
      [] pc = "done"  -> 0

\* C14: the seed search has no cap.  While the bucket being searched has no seed
\* that fits, no step leaves its search, so Build neither returns nor goes on
\* to another bucket; and Build always has a step to take until it returns, each
\* of which brings it nearer to its return unless the bucket being searched has
\* no seed that fits, so that Build returns if every bucket has one.
C14_NoSeedCap ==
    /\ [][pc # "try" \/ (pc' = "try" /\ bi' = bi) \/ HasFit(bi)]_vars
    /\ []((pc = "loop" => bi <= LenOf(buckets))
          /\ (pc = "try" => (bi < LenOf(buckets) /\ vi <= SizeAt(bi))))
    /\ [][pc # "done" =>
            \/ (Remaining' < Remaining /\ Remaining' >= 0)
            \/ (pc = "try" /\ ~ HasFit(bi))]_vars

\* five keys, one of them twice: the search of their bucket has no seed that
\* fits and has come to the last seed, after which it starts over
C14_Witness ==
    /\ LenOf(keys) = 5
    /\ pc = "try"
    /\ seed = MaxSeed
    /\ vi >= 1
    /\ ~ HasFit(bi)

\* ---------------------------------------------------------------- C15
\* C15: for one key or more, every value level1 holds at any point of Build,
\* written by a committed trial, by an aborted one or by the allocation, is an
\* index of the key slice, and so is every value of the Table's level1: no
\* Lookup reads t.keys out of bounds, whatever key it is asked for.
C15_Level1InBounds ==
    LenOf(keys) >= 1 =>
        /\ pc # "start" => \A n \in DOMAIN level1 : level1[n] \in DOMAIN keys
        /\ pc = "done" =>
             /\ LenOf(t.keys) = LenOf(keys)
             /\ \A n \in DOMAIN t.level1 : inRange(t, t.level1[n])
             /\ last.called => ~ last.res.panic

\* a Lookup of a key that is not in the input has read a slot that is no key's
\* final slot and holds the index an aborted trial left there, and has returned
\* not found
C15_Witness ==
    /\ Built
    /\ last.called
    /\ ~ InInput(last.s)
    /\ last.res = [n |-> last.res.n, ok |-> FALSE, panic |-> FALSE]
    /\ last.res.n # 0
    /\ \E n \in DOMAIN t.level1 :
          /\ n \notin FinalSlots
          /\ n = Slot(seedOf(t, last.s), last.s, t.level1Mask)
          /\ t.level1[n] = last.res.n

\* ---------------------------------------------------------------- C16
\* no key of the input has first-level index b
EmptyIndex(b) == \A i \in DOMAIN keys : Slot(0, KeyBytes(i), level0Mask) # b

\* C16: level0 holds 0 at every index that no key of the input hashes to under
\* seed 0, between the bucket iterations and in the Table returned; and after its
\* allocation level0 changes only in the step that commits a bucket, at the
\* index of that bucket alone, which is a non-empty one not committed before.
C16_EmptyBucketsZero ==
    /\ []((pc = "loop" \/ (Built /\ ~ last.called)) =>
            \A b \in DOMAIN level0 :
               EmptyIndex(b) => (level0[b] = 0 /\ (pc = "done" => t.level0[b] = 0)))
    /\ [](pc = "done" => t.level0 = level0)
    /\ [][(pc # "start" /\ level0' # level0) =>
             /\ pc = "try" /\ pc' = "loop" /\ bi' = bi + 1
             /\ vi = SizeAt(bi)
             /\ ~ EmptyIndex(buckets[bi].n)
             /\ \A q \in 0 .. bi - 1 : buckets[q].n # buckets[bi].n
             /\ \A b \in DOMAIN level0 :
                   level0'[b] = IF b = buckets[bi].n THEN seed ELSE level0[b]]_vars

\* Build has returned a Table of two first-level buckets: no key hashes to one
\* of them, whose level0 element is 0, and the other has a seed above 0
C16_Witness ==
    /\ Built
    /\ ~ last.called
    /\ LenOf(t.level0) = 2
    /\ \E b, c \in DOMAIN t.level0 :
          /\ EmptyIndex(b)
          /\ t.level0[b] = 0
          /\ ~ EmptyIndex(c)
          /\ t.level0[c] > 0

====
